---- MODULE Spec2Model ----
(***************************************************************************)
(* UDPPort / StunBindingRequest (talk/p2p/base/stunport.cc): gathering of  *)
(* the host and server-reflexive candidates of one UDP port, the per       *)
(* server bind bookkeeping and the port's complete/error signalling.       *)
(*                                                                         *)
(* Transport (webrtc/p2p/base/transport_unittest.cc): the transport the    *)
(* TransportTest fixture drives, its channels, ICE role and descriptions,  *)
(* and the signals it posts to the fixture's thread.                       *)
(***************************************************************************)
EXTENDS Bags, FiniteSets, Integers, Sequences, TLC

VARIABLES
  server_addresses_,                \* UDPPort::server_addresses_
  bind_request_succeeded_servers_,  \* UDPPort::bind_request_succeeded_servers_
  bind_request_failed_servers_,     \* UDPPort::bind_request_failed_servers_
  ready_,                           \* UDPPort::ready_
  requests_,                        \* UDPPort::requests_ (bag of requests)
  resolvers_,                       \* AddressResolver::resolvers_
  candidates_,                      \* Port::Candidates()
  port_complete,                    \* number of SignalPortComplete emissions
  port_error,                       \* number of SignalPortError emissions
  socket_state,                     \* socket_->GetState(); "NONE": socket_ == NULL
  shared_socket,                    \* Port::SharedSocket()
  inited,                           \* UDPPort::Init has connected the signals
  prepare_called,                   \* PrepareAddress has been called
  assert_failed,                    \* an ASSERT(requests_.empty()) did not hold
  repeated_success,                 \* history: servers whose repeated bind
                                    \* success was dropped as a duplicate
  now,                              \* talk_base::Time(), in ms
  ticks,                            \* number of clock advances so far
  connections_,                     \* Port::connections_, by remote address
  last_read,                        \* history: where the last inbound
                                    \* datagram was handed to
  lookups_started,                  \* history: resolver->Start calls per
                                    \* address
  destroyed,                        \* ~UDPPort has run
  address_ready_log,                \* history: what the latest run of
                                    \* OnLocalAddressReady did, in order
  error_,                           \* UDPPort::error_
  socket_error,                     \* socket_->GetError()
  last_send,                        \* history: the latest SendTo or
                                    \* OnSendPacket call and its outcome
  transport_,                       \* TransportTest::transport_
  thread_,                          \* TransportTest::thread_: its message queue
  connecting_signalled_,            \* TransportTest::connecting_signalled_
  completed_,                       \* TransportTest::completed_
  failed_,                          \* TransportTest::failed_
  credentials_changed,              \* the latest IceCredentialsChanged call
                                    \* and what it returned
  elem                              \* the element WriteGingleCandidate wrote

port_vars == << server_addresses_, bind_request_succeeded_servers_,
                bind_request_failed_servers_, ready_, requests_, resolvers_,
                candidates_, port_complete, port_error, socket_state,
                shared_socket, inited, prepare_called, assert_failed,
                repeated_success, now, ticks, connections_, last_read,
                lookups_started, destroyed, address_ready_log, error_,
                socket_error, last_send >>

test_vars == << transport_, thread_, connecting_signalled_, completed_,
                failed_ >>

value_vars == << credentials_changed, elem >>

vars == << port_vars, test_vars, value_vars >>

----------------------------------------------------------------------------
(* Program constants *)

KEEPALIVE_DELAY == 10000
RETRY_DELAY == 50
RETRY_TIMEOUT == 50000

(* Bounds of the model *)

MaxTicks == 2

(* Address universe.  Hostnames are unresolved addresses; the others are   *)
(* resolved, CompatibleIPs of the port's family, IncompatibleIPs not.      *)
(* A port is configured with any subset of ServerUniverse; "R2" is a      *)
(* server that is only reached through a hostname, and "H2" a hostname     *)
(* that only a port configured with NamedServers has.                      *)
Hostnames == {"H1", "H2"}
CompatibleIPs == {"R1", "R2"}
IncompatibleIPs == {"X1"}
ServerUniverse == {"H1", "R1"} \cup IncompatibleIPs
\* A port whose servers are given by name: two hostnames, which may resolve
\* to the same address, and an address.
NamedServers == {"H1", "H2", "R1"}
LocalAddr == "L"
MappedAddrs == {LocalAddr, "M1"}
\* The clock is observed at the granularity of the retry budget.
TickSteps == {RETRY_TIMEOUT}

IsUnresolved(addr) == addr \in Hostnames
IsCompatibleAddress(addr) == addr \in CompatibleIPs

(* std::set<SocketAddress> iterates in operator< order: unresolved names   *)
(* (IP 0.0.0.0) first, then by IP.                                         *)
AddrRank(addr) ==
  CASE addr = "H1" -> 1
    [] addr = "H2" -> 2
    [] addr = "R1" -> 3
    [] addr = "R2" -> 4
    [] OTHER -> 5

----------------------------------------------------------------------------
(* The port's mutable state as one record, so that a handler and the       *)
(* handlers it calls compose as functions on that record.  logging is not  *)
(* state: it is on while OnLocalAddressReady runs.                         *)

S == [ server_addresses_ |-> server_addresses_,
       bind_request_succeeded_servers_ |-> bind_request_succeeded_servers_,
       bind_request_failed_servers_ |-> bind_request_failed_servers_,
       ready_ |-> ready_,
       requests_ |-> requests_,
       resolvers_ |-> resolvers_,
       candidates_ |-> candidates_,
       port_complete |-> port_complete,
       port_error |-> port_error,
       socket_state |-> socket_state,
       assert_failed |-> assert_failed,
       repeated_success |-> repeated_success,
       connections_ |-> connections_,
       last_read |-> last_read,
       lookups_started |-> lookups_started,
       address_ready_log |-> address_ready_log,
       logging |-> FALSE,
       error_ |-> error_,
       socket_error |-> socket_error,
       last_send |-> last_send ]

Commit(s) ==
  /\ server_addresses_' = s.server_addresses_
  /\ bind_request_succeeded_servers_' = s.bind_request_succeeded_servers_
  /\ bind_request_failed_servers_' = s.bind_request_failed_servers_
  /\ ready_' = s.ready_
  /\ requests_' = s.requests_
  /\ resolvers_' = s.resolvers_
  /\ candidates_' = s.candidates_
  /\ port_complete' = s.port_complete
  /\ port_error' = s.port_error
  /\ socket_state' = s.socket_state
  /\ assert_failed' = s.assert_failed
  /\ repeated_success' = s.repeated_success
  /\ connections_' = s.connections_
  /\ last_read' = s.last_read
  /\ lookups_started' = s.lookups_started
  /\ address_ready_log' = s.address_ready_log
  /\ error_' = s.error_
  /\ socket_error' = s.socket_error
  /\ last_send' = s.last_send
  /\ UNCHANGED << test_vars, value_vars >>

----------------------------------------------------------------------------
(* StunBindingRequest and StunRequestManager *)

\* StunBindingRequest(port, keep_alive, addr): start_time_ = Time().
\* delay/sent belong to the manager: the request is transmitted `delay' ms
\* after it was handed over.  chain_start is history: the creation time of
\* the first request of the chain of timeout-driven retries this one is in.
StunBindingRequest(addr, keep_alive, delay, chain_start) ==
  [ server_addr |-> addr, keep_alive |-> keep_alive, start_time |-> now,
    delay |-> delay, sent |-> (delay = 0), chain_start |-> chain_start ]

TimeSince(earlier) == now - earlier

\* While OnLocalAddressReady runs, what it does is written to
\* address_ready_log: "local" or "stun" for a candidate, "request" for a
\* binding request sent, "resolve" for a lookup started, "complete" or
\* "error" for the port's signal.
Log(s, event) ==
  IF s.logging THEN [s EXCEPT !.address_ready_log = Append(@, event)] ELSE s

\* StunRequestManager::Send: transmit at once, start the retransmit timer.
Send(s, addr) ==
  Log([s EXCEPT !.requests_ =
         @ (+) SetToBag({StunBindingRequest(addr, TRUE, 0, now)})],
      "request")

\* StunRequestManager::SendDelayed: first transmission after `delay'.
SendDelayed(s, addr, delay, chain_start) ==
  [s EXCEPT !.requests_ =
     @ (+) SetToBag({StunBindingRequest(addr, TRUE, delay, chain_start)})]

\* The manager drops a request once it has completed or timed out.
Remove(s, req) ==
  [s EXCEPT !.requests_ = @ (-) SetToBag({req})]

----------------------------------------------------------------------------
(* UDPPort *)

AddAddress(s, address, type) ==
  Log([s EXCEPT !.candidates_ =
         Append(@, [type |-> type, address |-> address])],
      type)

\* Faulty variants of MaybeSetPortCompleteOrError: one without the ready_
\* guard, one that forgets SharedSocket() when choosing the signal.
MaybeSetPortCompleteOrError_NoReadyGuard(s) ==
  LET servers_done_bind_request ==
        Cardinality(s.bind_request_failed_servers_) +
        Cardinality(s.bind_request_succeeded_servers_)
  IN IF Cardinality(s.server_addresses_) # servers_done_bind_request THEN s
     ELSE IF \/ s.server_addresses_ = {}
             \/ Cardinality(s.bind_request_succeeded_servers_) > 0
             \/ shared_socket
          THEN Log([s EXCEPT !.ready_ = TRUE, !.port_complete = @ + 1],
                   "complete")
          ELSE Log([s EXCEPT !.ready_ = TRUE, !.port_error = @ + 1],
                   "error")

MaybeSetPortCompleteOrError_NoSharedCheck(s) ==
  LET servers_done_bind_request ==
        Cardinality(s.bind_request_failed_servers_) +
        Cardinality(s.bind_request_succeeded_servers_)
  IN IF s.ready_ THEN s
     ELSE IF Cardinality(s.server_addresses_) # servers_done_bind_request THEN s
     ELSE IF \/ s.server_addresses_ = {}
             \/ Cardinality(s.bind_request_succeeded_servers_) > 0
          THEN Log([s EXCEPT !.ready_ = TRUE, !.port_complete = @ + 1],
                   "complete")
          ELSE Log([s EXCEPT !.ready_ = TRUE, !.port_error = @ + 1],
                   "error")

MaybeSetPortCompleteOrError(s) ==
  LET servers_done_bind_request ==
        Cardinality(s.bind_request_failed_servers_) +
        Cardinality(s.bind_request_succeeded_servers_)
  IN IF s.ready_ THEN s
     ELSE IF Cardinality(s.server_addresses_) # servers_done_bind_request THEN s
     ELSE IF \/ s.server_addresses_ = {}
             \/ Cardinality(s.bind_request_succeeded_servers_) > 0
             \/ shared_socket
          THEN Log([s EXCEPT !.ready_ = TRUE, !.port_complete = @ + 1],
                   "complete")
          ELSE Log([s EXCEPT !.ready_ = TRUE, !.port_error = @ + 1],
                   "error")

OnStunBindingOrResolveRequestFailed(s, stun_server_addr) ==
  IF stun_server_addr \in s.bind_request_failed_servers_ THEN s
  ELSE MaybeSetPortCompleteOrError(
         [s EXCEPT !.bind_request_failed_servers_ = @ \cup {stun_server_addr}])

\* Faulty variants of OnStunBindingRequestSucceeded: one that does not
\* drop a repeated success, one that registers the candidate
\* unconditionally.
OnStunBindingRequestSucceeded_NoDedupe(s, stun_server_addr, stun_reflected_addr) ==
  LET s1 == [s EXCEPT !.bind_request_succeeded_servers_ =
                          @ \cup {stun_server_addr},
                      !.repeated_success =
                          IF stun_server_addr \in
                               s.bind_request_succeeded_servers_
                          THEN @ \cup {stun_server_addr} ELSE @]
      s2 == IF ~shared_socket \/ stun_reflected_addr # LocalAddr
            THEN AddAddress(s1, stun_reflected_addr, "stun")
            ELSE s1
  IN MaybeSetPortCompleteOrError(s2)

OnStunBindingRequestSucceeded_AlwaysAdds(s, stun_server_addr, stun_reflected_addr) ==
  IF stun_server_addr \in s.bind_request_succeeded_servers_
  THEN [s EXCEPT !.repeated_success = @ \cup {stun_server_addr}]
  ELSE LET s1 == [s EXCEPT !.bind_request_succeeded_servers_ =
                               @ \cup {stun_server_addr}]
       IN MaybeSetPortCompleteOrError(
            AddAddress(s1, stun_reflected_addr, "stun"))

OnStunBindingRequestSucceeded(s, stun_server_addr, stun_reflected_addr) ==
  IF stun_server_addr \in s.bind_request_succeeded_servers_
  THEN [s EXCEPT !.repeated_success = @ \cup {stun_server_addr}]
  ELSE LET s1 == [s EXCEPT !.bind_request_succeeded_servers_ =
                               @ \cup {stun_server_addr}]
           s2 == IF ~shared_socket \/ stun_reflected_addr # LocalAddr
                 THEN AddAddress(s1, stun_reflected_addr, "stun")
                 ELSE s1
       IN MaybeSetPortCompleteOrError(s2)

\* Faulty variant of Resolve: no lookup of the address in resolvers_.
Resolve_NoFind(s, address) ==
  Log([s EXCEPT !.resolvers_[address] = "started",
                !.lookups_started[address] = @ + 1],
      "resolve")

\* AddressResolver::Resolve: one resolver per distinct address.
Resolve(s, address) ==
  IF s.resolvers_[address] # "none" THEN s
  ELSE Log([s EXCEPT !.resolvers_[address] = "started",
                     !.lookups_started[address] = @ + 1],
           "resolve")

\* Creating the AddressResolver on first use has no state of its own here:
\* it exists as soon as one entry of resolvers_ is not "none".
ResolveStunAddress(s, stun_addr) == Resolve(s, stun_addr)

\* Faulty variant of SendStunBindingRequest: no IsCompatibleAddress test.
SendStunBindingRequest_NoCompatibleTest(s, stun_addr) ==
  IF IsUnresolved(stun_addr) THEN ResolveStunAddress(s, stun_addr)
  ELSE IF s.socket_state = "BOUND" THEN Send(s, stun_addr)
  ELSE s

SendStunBindingRequest(s, stun_addr) ==
  IF IsUnresolved(stun_addr) THEN ResolveStunAddress(s, stun_addr)
  ELSE IF s.socket_state = "BOUND"
       THEN IF IsCompatibleAddress(stun_addr)
            THEN Send(s, stun_addr)
            ELSE OnStunBindingOrResolveRequestFailed(s, stun_addr)
       ELSE s

RECURSIVE SendEach(_, _)
SendEach(s, todo) ==
  IF todo = {} THEN s
  ELSE LET a == CHOOSE x \in todo : \A y \in todo : AddrRank(x) <= AddrRank(y)
       IN SendEach(SendStunBindingRequest(s, a), todo \ {a})

\* ASSERT(requests_.empty()): a failed ASSERT stops the program.
SendStunBindingRequests(s) ==
  IF s.requests_ # EmptyBag THEN [s EXCEPT !.assert_failed = TRUE]
  ELSE SendEach(s, s.server_addresses_)

MaybePrepareStunCandidate(s) ==
  IF s.server_addresses_ # {} THEN SendStunBindingRequests(s)
  ELSE MaybeSetPortCompleteOrError(s)

\* Faulty variant of OnLocalAddressReady: the host candidate comes last.
OnLocalAddressReady_GathersFirst(s) ==
  LET s0 == [s EXCEPT !.logging = TRUE, !.address_ready_log = << >>]
      s1 == AddAddress(MaybePrepareStunCandidate(s0), LocalAddr, "local")
  IN [s1 EXCEPT !.logging = FALSE]

OnLocalAddressReady(s) ==
  LET s0 == [s EXCEPT !.logging = TRUE, !.address_ready_log = << >>]
      s1 == MaybePrepareStunCandidate(AddAddress(s0, LocalAddr, "local"))
  IN [s1 EXCEPT !.logging = FALSE]

\* A lookup fails ("error": error != 0) or finds no address of the port's
\* family ("no_address": GetResolvedAddress returns false), or
\* GetResolvedAddress yields an address of the port's family.
ResolveFailures == {"error", "no_address"}
ResolveResults == ResolveFailures \cup CompatibleIPs

\* Faulty variants of OnResolveResult: one that leaves the hostname in
\* server_addresses_, one that sends without looking for the address.
OnResolveResult_KeepsInput(s, input, result) ==
  IF result \in ResolveFailures
  THEN OnStunBindingOrResolveRequestFailed(s, input)
  ELSE IF result \notin s.server_addresses_
       THEN SendStunBindingRequest(
              [s EXCEPT !.server_addresses_ = @ \cup {result}], result)
       ELSE s

OnResolveResult_NoFind(s, input, result) ==
  IF result \in ResolveFailures
  THEN OnStunBindingOrResolveRequestFailed(s, input)
  ELSE LET s1 == [s EXCEPT !.server_addresses_ = @ \ {input}]
       IN SendStunBindingRequest(
            [s1 EXCEPT !.server_addresses_ = @ \cup {result}], result)

OnResolveResult(s, input, result) ==
  IF result \in ResolveFailures
  THEN OnStunBindingOrResolveRequestFailed(s, input)
  ELSE LET s1 == [s EXCEPT !.server_addresses_ = @ \ {input}]
       IN IF result \notin s1.server_addresses_
          THEN SendStunBindingRequest(
                 [s1 EXCEPT !.server_addresses_ = @ \cup {result}], result)
          ELSE s1

Responses == {"no_attr", "bad_family"} \cup MappedAddrs
stun_keepalive_delay == KEEPALIVE_DELAY

\* AsyncResolverInterface::Destroy(wait): the lookup is cancelled and the
\* resolver deleted; it emits no SignalDone.
Destroy(resolver, wait) == "destroyed"

\* Faulty variant of ~AddressResolver: the resolvers are left running.
AddressResolver_dtor_Leak(s) == s

\* AddressResolver::~AddressResolver
AddressResolver_dtor(s) ==
  [s EXCEPT !.resolvers_ =
     [h \in DOMAIN @ |-> IF @[h] = "none" THEN "none" ELSE Destroy(@[h], TRUE)]]

\* StunRequestManager::~StunRequestManager: the outstanding requests are
\* deleted without a callback.
StunRequestManager_dtor(s) == [s EXCEPT !.requests_ = EmptyBag]

\* UDPPort::~UDPPort: deletes its own socket; then the members go,
\* resolver_ and requests_ among them.
UDPPort_dtor(s) ==
  LET s1 == IF ~shared_socket THEN [s EXCEPT !.socket_state = "NONE"] ELSE s
  IN StunRequestManager_dtor(AddressResolver_dtor(s1))

\* StunBindingRequest::OnResponse.  resp is the mapped address of the
\* response, "no_attr" when the attribute is missing, "bad_family" when its
\* family is neither IPv4 nor IPv6.
StunBindingRequest_OnResponse(s, req, resp) ==
  LET s1 == IF resp \in MappedAddrs
            THEN OnStunBindingRequestSucceeded(s, req.server_addr, resp)
            ELSE s
      s2 == IF req.keep_alive
            THEN SendDelayed(s1, req.server_addr, stun_keepalive_delay, now)
            ELSE s1
  IN Remove(s2, req)

\* Faulty variant of OnErrorResponse: the age of the request is not tested.
StunBindingRequest_OnErrorResponse_NoBudget(s, req) ==
  LET s1 == OnStunBindingOrResolveRequestFailed(s, req.server_addr)
      s2 == IF req.keep_alive
            THEN SendDelayed(s1, req.server_addr, stun_keepalive_delay, now)
            ELSE s1
  IN Remove(s2, req)

\* StunBindingRequest::OnErrorResponse
StunBindingRequest_OnErrorResponse(s, req) ==
  LET s1 == OnStunBindingOrResolveRequestFailed(s, req.server_addr)
      s2 == IF req.keep_alive /\ TimeSince(req.start_time) <= RETRY_TIMEOUT
            THEN SendDelayed(s1, req.server_addr, stun_keepalive_delay, now)
            ELSE s1
  IN Remove(s2, req)

\* StunRequestManager::CheckResponse: a message that matches an outstanding
\* request by transaction id completes it; anything else is dropped.
CheckResponse(s, pkt) ==
  IF pkt.kind = "response" /\ BagIn(pkt.req, s.requests_)
  THEN IF pkt.resp = "error"
       THEN StunBindingRequest_OnErrorResponse(s, pkt.req)
       ELSE StunBindingRequest_OnResponse(s, pkt.req, pkt.resp)
  ELSE s

\* The datagram is handed to `sink'.
Deliver(s, sink) == [s EXCEPT !.last_read.sinks = @ \cup {sink}]

\* Faulty variant of OnReadPacket: the return after CheckResponse is missing.
OnReadPacket_NoReturn(s, remote_addr, pkt) ==
  LET s0 == [s EXCEPT !.last_read =
                 [remote |-> remote_addr,
                  matched |-> (pkt.kind = "response"), sinks |-> {}]]
      s1 == IF remote_addr \in s0.server_addresses_
            THEN CheckResponse(Deliver(s0, "CheckResponse"), pkt)
            ELSE s0
  IN IF remote_addr \in s1.connections_
     THEN Deliver(s1, "Connection")
     ELSE Deliver(s1, "Port")

\* UDPPort::OnReadPacket
OnReadPacket(s, remote_addr, pkt) ==
  LET s0 == [s EXCEPT !.last_read =
                 [remote |-> remote_addr,
                  matched |-> (pkt.kind = "response"), sinks |-> {}]]
  IN IF remote_addr \in s0.server_addresses_
     THEN CheckResponse(Deliver(s0, "CheckResponse"), pkt)
     ELSE IF remote_addr \in s0.connections_
          THEN Deliver(s0, "Connection")
          ELSE Deliver(s0, "Port")

\* No send yet.
NoSend == [via |-> "none", sent |-> 0, error |-> 0, socket_calls |-> 0]

\* What a send on the socket can fail with (EWOULDBLOCK, ENETUNREACH), and
\* the datagram sizes.
SocketErrors == {11, 101}
Sizes == {1, 1200}

\* socket_->SendTo: err = 0 is a send that succeeds and returns the size;
\* any other err is a send that returns -1 and leaves err as the socket's
\* error.  The call is counted in last_send.
SocketSendTo(s, via, size, err) ==
  [s EXCEPT !.socket_error = IF err = 0 THEN @ ELSE err,
            !.last_send = [via |-> via,
                           sent |-> IF err = 0 THEN size ELSE -1,
                           error |-> err,
                           socket_calls |-> 1]]

\* Faulty variant of SendTo: the socket's error is copied after every send.
SendTo_CopiesAlways(s, size, addr, err) ==
  LET s1 == SocketSendTo(s, "SendTo", size, err)
  IN [s1 EXCEPT !.error_ = s1.socket_error]

\* UDPPort::SendTo; its return value is last_send.sent.
SendTo(s, size, addr, err) ==
  LET s1 == SocketSendTo(s, "SendTo", size, err)
      sent == s1.last_send.sent
  IN IF sent < 0 THEN [s1 EXCEPT !.error_ = s1.socket_error] ELSE s1

\* UDPPort::GetError
GetError(s) == s.error_

\* UDPPort::OnSendPacket: a failed send is logged.
OnSendPacket(s, size, req, err) ==
  SocketSendTo(s, "OnSendPacket", size, err)

\* UDPPort::CreateConnection: NULL for a candidate that is not UDP or not
\* of the port's family; on a shared socket the first candidate must be
\* the host candidate.
CreateConnection(s, address, protocol) ==
  IF protocol # "udp" THEN s
  ELSE IF ~IsCompatibleAddress(address) THEN s
  ELSE IF shared_socket /\ s.candidates_[1].type # "local"
       THEN [s EXCEPT !.assert_failed = TRUE]
  ELSE [s EXCEPT !.connections_ = @ \cup {address}]

----------------------------------------------------------------------------
(* Transport, as the TransportTest fixture uses it.  t is the transport's  *)
(* state: ice_role_, tiebreaker_, the two descriptions (a sequence of      *)
(* length 0 or 1 each), remote_ice_mode_, connect_requested_, destroyed_   *)
(* and channels_, a function from component to channel.  Two fields are    *)
(* history: last_restart, the role before and the stage of the latest ICE  *)
(* restart, lite_forced, whether an ICE-LITE remote has made a CONTROLLED   *)
(* transport CONTROLLING, and late_message, whether the thread has         *)
(* processed a message since the channels were destroyed.                  *)

kIceUfrag1 == "TESTICEUFRAG0001"
kIcePwd1 == "TESTICEPWD00000000000001"
kIceUfrag2 == "TESTICEUFRAG0002"
kIcePwd2 == "TESTICEPWD00000000000002"

Components == {1, 2}
IceRoles == {"ICEROLE_CONTROLLING", "ICEROLE_CONTROLLED"}
IceModes == {"ICEMODE_FULL", "ICEMODE_LITE"}
ContentActions == {"CA_OFFER", "CA_PRANSWER", "CA_ANSWER"}
Tiebreakers == {99}

(* Bounds of the model: the longest message queue and the largest         *)
(* connection count of a channel.                                          *)
MaxQueue == 3
MaxConnections == 3

\* The messages of the transport on its signaling thread; MSG_OTHER is a
\* message of some other handler on the same thread.
TransportMessages == {"MSG_CONNECTING", "MSG_COMPLETED", "MSG_FAILED"}

\* TransportDescription(ufrag, pwd) is of mode FULL; the long constructor
\* names the mode.  An empty ufrag/pwd is a malformed description.
TransportDescription(ufrag, pwd, mode) ==
  [ice_ufrag |-> ufrag, ice_pwd |-> pwd, ice_mode |-> mode]

LocalDescriptions ==
  { TransportDescription(kIceUfrag1, kIcePwd1, "ICEMODE_FULL"),
    TransportDescription(kIceUfrag2, kIcePwd2, "ICEMODE_FULL"),
    TransportDescription("", "", "ICEMODE_FULL") }

RemoteDescriptions ==
  { TransportDescription(kIceUfrag1, kIcePwd1, m) : m \in IceModes }
  \cup { TransportDescription("", "", "ICEMODE_FULL") }

\* FakeTransport as constructed.
NewTransport ==
  [ ice_role_ |-> "ICEROLE_UNKNOWN",
    tiebreaker_ |-> 0,
    local_description_ |-> << >>,
    remote_description_ |-> << >>,
    remote_ice_mode_ |-> "ICEMODE_FULL",
    connect_requested_ |-> FALSE,
    destroyed_ |-> FALSE,
    channels_ |-> << >>,
    last_restart |-> << >>,
    lite_forced |-> FALSE,
    late_message |-> FALSE ]

\* Faulty variant of IceCredentialsChanged: the pwd is not compared.
IceCredentialsChanged_UfragOnly(old_ufrag, old_pwd, new_ufrag, new_pwd) ==
  old_ufrag # new_ufrag

IceCredentialsChanged(old_ufrag, old_pwd, new_ufrag, new_pwd) ==
  old_ufrag # new_ufrag \/ old_pwd # new_pwd

\* A description must carry a ufrag and a pwd.
VerifyIceParams(desc) == desc.ice_ufrag # "" /\ desc.ice_pwd # ""

\* Faulty variant of SetIceRole_w: the channels are not told.
SetIceRole_w_TransportOnly(t, role) == [t EXCEPT !.ice_role_ = role]

\* Transport::SetIceRole: the transport's role, pushed to every channel.
SetIceRole_w(t, role) ==
  [t EXCEPT !.ice_role_ = role,
            !.channels_ = [c \in DOMAIN @ |-> [@[c] EXCEPT !.ice_role = role]]]

SetIceTiebreaker_w(t, tiebreaker) == [t EXCEPT !.tiebreaker_ = tiebreaker]

ApplyLocalTransportDescription_w(t, ch) ==
  [ch EXCEPT !.ice_ufrag = t.local_description_[1].ice_ufrag,
             !.ice_pwd = t.local_description_[1].ice_pwd]

ApplyRemoteTransportDescription_w(t, ch) ==
  [ch EXCEPT !.remote_ice_ufrag = t.remote_description_[1].ice_ufrag,
             !.remote_ice_pwd = t.remote_description_[1].ice_pwd]

ApplyNegotiatedTransportDescription_w(t, ch) ==
  [ch EXCEPT !.remote_ice_mode = t.remote_ice_mode_]

\* Transport::CreateChannel: a new channel takes the transport's current
\* ICE parameters; an existing one is returned as it is.
CreateChannel_w(t, component) ==
  IF component \in DOMAIN t.channels_ THEN t
  ELSE LET ch0 == [ ice_role |-> t.ice_role_,
                    tiebreaker |-> t.tiebreaker_,
                    ice_ufrag |-> "", ice_pwd |-> "",
                    remote_ice_ufrag |-> "", remote_ice_pwd |-> "",
                    remote_ice_mode |-> t.remote_ice_mode_,
                    connection_count |-> 0,
                    writable |-> FALSE ]
           ch1 == IF t.local_description_ # << >>
                  THEN ApplyLocalTransportDescription_w(t, ch0) ELSE ch0
           ch2 == IF t.remote_description_ # << >>
                  THEN ApplyRemoteTransportDescription_w(t, ch1) ELSE ch1
       IN [t EXCEPT !.channels_ =
             [c \in DOMAIN @ \cup {component} |->
                IF c = component THEN ch2 ELSE @[c]]]

DestroyChannel_w(t, component) ==
  [t EXCEPT !.channels_ = [c \in DOMAIN @ \ {component} |-> @[c]]]

\* Faulty variant of NegotiateTransportDescription_w: the role is left
\* alone when the remote is ICE-LITE.
NegotiateTransportDescription_w_KeepsRole(t) ==
  LET t2 == [t EXCEPT !.remote_ice_mode_ = t.remote_description_[1].ice_mode]
  IN [t2 EXCEPT !.channels_ =
        [c \in DOMAIN @ |-> ApplyNegotiatedTransportDescription_w(t2, @[c])]]

\* The negotiation is complete: against an ICE-LITE remote the full side
\* takes the CONTROLLING role; the remote mode goes to every channel.
NegotiateTransportDescription_w(t) ==
  LET t1 == IF /\ t.ice_role_ = "ICEROLE_CONTROLLED"
               /\ t.remote_description_[1].ice_mode = "ICEMODE_LITE"
            THEN [SetIceRole_w(t, "ICEROLE_CONTROLLING")
                    EXCEPT !.lite_forced = TRUE]
            ELSE t
      t2 == [t1 EXCEPT !.remote_ice_mode_ = t.remote_description_[1].ice_mode]
  IN [t2 EXCEPT !.channels_ =
        [c \in DOMAIN @ |-> ApplyNegotiatedTransportDescription_w(t2, @[c])]]

Flip(role) ==
  IF role = "ICEROLE_CONTROLLING" THEN "ICEROLE_CONTROLLED"
  ELSE "ICEROLE_CONTROLLING"

\* Faulty variants of SetLocalTransportDescription_w: one that keeps the
\* role over an ICE restart, one that flips it whatever the remote's mode.
SetLocalTransportDescription_w_KeepsRole(t, desc, action) ==
  IF ~VerifyIceParams(desc) THEN t
  ELSE
    LET restart ==
          /\ t.local_description_ # << >>
          /\ t.remote_description_ # << >>
          /\ IceCredentialsChanged(t.local_description_[1].ice_ufrag,
                                   t.local_description_[1].ice_pwd,
                                   desc.ice_ufrag, desc.ice_pwd)
        t1 == IF restart
              THEN [t EXCEPT !.last_restart = << t.ice_role_, action >>]
              ELSE t
        t2 == [t1 EXCEPT !.local_description_ = << desc >>]
        t3 == [t2 EXCEPT !.channels_ =
                 [c \in DOMAIN @ |-> ApplyLocalTransportDescription_w(t2, @[c])]]
    IN IF action \in {"CA_PRANSWER", "CA_ANSWER"}
       THEN NegotiateTransportDescription_w(t3)
       ELSE t3

SetLocalTransportDescription_w_AlwaysFlips(t, desc, action) ==
  IF ~VerifyIceParams(desc) THEN t
  ELSE
    LET restart ==
          /\ t.local_description_ # << >>
          /\ t.remote_description_ # << >>
          /\ IceCredentialsChanged(t.local_description_[1].ice_ufrag,
                                   t.local_description_[1].ice_pwd,
                                   desc.ice_ufrag, desc.ice_pwd)
        t1 == IF restart
              THEN [SetIceRole_w(t, Flip(t.ice_role_))
                    EXCEPT !.last_restart = << t.ice_role_, action >>]
              ELSE t
        t2 == [t1 EXCEPT !.local_description_ = << desc >>]
        t3 == [t2 EXCEPT !.channels_ =
                 [c \in DOMAIN @ |-> ApplyLocalTransportDescription_w(t2, @[c])]]
    IN IF action \in {"CA_PRANSWER", "CA_ANSWER"}
       THEN NegotiateTransportDescription_w(t3)
       ELSE t3

\* Transport::SetLocalTransportDescription.  A malformed description fails
\* and changes nothing.  New credentials while a remote description is
\* held are an ICE restart: the role flips, or is CONTROLLING when the
\* remote is ICE-LITE.
SetLocalTransportDescription_w(t, desc, action) ==
  IF ~VerifyIceParams(desc) THEN t
  ELSE
    LET restart ==
          /\ t.local_description_ # << >>
          /\ t.remote_description_ # << >>
          /\ IceCredentialsChanged(t.local_description_[1].ice_ufrag,
                                   t.local_description_[1].ice_pwd,
                                   desc.ice_ufrag, desc.ice_pwd)
        t1 == IF restart
              THEN [SetIceRole_w(t,
                      IF t.remote_description_[1].ice_mode = "ICEMODE_LITE"
                      THEN "ICEROLE_CONTROLLING"
                      ELSE Flip(t.ice_role_))
                    EXCEPT !.last_restart = << t.ice_role_, action >>]
              ELSE t
        t2 == [t1 EXCEPT !.local_description_ = << desc >>]
        t3 == [t2 EXCEPT !.channels_ =
                 [c \in DOMAIN @ |-> ApplyLocalTransportDescription_w(t2, @[c])]]
    IN IF action \in {"CA_PRANSWER", "CA_ANSWER"}
       THEN NegotiateTransportDescription_w(t3)
       ELSE t3

\* Transport::SetRemoteTransportDescription
SetRemoteTransportDescription_w(t, desc, action) ==
  IF ~VerifyIceParams(desc) THEN t
  ELSE
    LET t2 == [t EXCEPT !.remote_description_ = << desc >>]
        t3 == [t2 EXCEPT !.channels_ =
                 [c \in DOMAIN @ |-> ApplyRemoteTransportDescription_w(t2, @[c])]]
    IN IF action \in {"CA_PRANSWER", "CA_ANSWER"}
       THEN NegotiateTransportDescription_w(t3)
       ELSE t3

\* The fixture's world as one record: the transport, the thread's queue
\* and the three flags its slots set.
W == [ transport_ |-> transport_,
       thread_ |-> thread_,
       connecting_signalled_ |-> connecting_signalled_,
       completed_ |-> completed_,
       failed_ |-> failed_ ]

CommitTest(w) ==
  /\ transport_' = w.transport_
  /\ thread_' = w.thread_
  /\ connecting_signalled_' = w.connecting_signalled_
  /\ completed_' = w.completed_
  /\ failed_' = w.failed_

\* Thread::Post(handler, id)
Post(w, id) == [w EXCEPT !.thread_ = Append(@, id)]

\* Thread::Clear(transport): its pending messages are removed.
Clear(w) ==
  [w EXCEPT !.thread_ = SelectSeq(@, LAMBDA m : m \notin TransportMessages)]

\* Transport::OnMessage: the posted notification becomes the signal, and
\* the fixture's slot sets its flag.
OnMessage(w, id) ==
  CASE id = "MSG_CONNECTING" -> [w EXCEPT !.connecting_signalled_ = TRUE]
    [] id = "MSG_COMPLETED" -> [w EXCEPT !.completed_ = TRUE]
    [] id = "MSG_FAILED" -> [w EXCEPT !.failed_ = TRUE]
    [] OTHER -> w

\* Faulty variant of ConnectChannels_w: SignalConnecting is emitted in the
\* call.
ConnectChannels_w_Synchronous(w) ==
  IF w.transport_.connect_requested_ THEN w
  ELSE OnMessage([w EXCEPT !.transport_.connect_requested_ = TRUE],
                 "MSG_CONNECTING")

\* Transport::ConnectChannels: the connecting notification is posted to
\* the thread, once.
ConnectChannels_w(w) ==
  IF w.transport_.connect_requested_ THEN w
  ELSE Post([w EXCEPT !.transport_.connect_requested_ = TRUE],
            "MSG_CONNECTING")

\* Faulty variant of DestroyAllChannels_w: the pending messages stay.
DestroyAllChannels_w_NoClear(w) ==
  [w EXCEPT !.transport_.channels_ = << >>,
            !.transport_.destroyed_ = TRUE]

\* Transport::DestroyAllChannels: every channel goes and the transport's
\* pending notifications are cancelled.
DestroyAllChannels_w(w) ==
  Clear([w EXCEPT !.transport_.channels_ = << >>,
                  !.transport_.destroyed_ = TRUE])

\* Faulty variant of MaybeCompleted_w: one connection or more will do.
MaybeCompleted_w_AnyCount(w) ==
  IF /\ w.transport_.channels_ # << >>
     /\ \A c \in DOMAIN w.transport_.channels_ :
          /\ w.transport_.channels_[c].writable
          /\ w.transport_.channels_[c].connection_count >= 1
  THEN Post(w, "MSG_COMPLETED")
  ELSE w

\* The transport is completed when every channel is writable and is down
\* to one connection.
MaybeCompleted_w(w) ==
  IF /\ w.transport_.channels_ # << >>
     /\ \A c \in DOMAIN w.transport_.channels_ :
          /\ w.transport_.channels_[c].writable
          /\ w.transport_.channels_[c].connection_count = 1
  THEN Post(w, "MSG_COMPLETED")
  ELSE w

\* Transport::OnChannelConnectionRemoved: completed is evaluated; a channel
\* without a connection left fails the transport.
OnChannelConnectionRemoved(w, component) ==
  LET w1 == MaybeCompleted_w(w)
  IN IF w1.transport_.channels_[component].connection_count = 0
     THEN Post(w1, "MSG_FAILED")
     ELSE w1

\* Transport::OnChannelWritableState
OnChannelWritableState(w, component) == MaybeCompleted_w(w)

\* FakeTransportChannel::SetConnectionCount: SignalConnectionRemoved when
\* the count went down.
SetConnectionCount_w(w, component, connection_count) ==
  LET old == w.transport_.channels_[component].connection_count
      w1 == [w EXCEPT !.transport_.channels_[component].connection_count =
                        connection_count]
  IN IF connection_count < old
     THEN OnChannelConnectionRemoved(w1, component)
     ELSE w1

\* FakeTransportChannel::SetWritable: SignalWritableState on a change.
SetWritable_w(w, component, writable) ==
  IF w.transport_.channels_[component].writable = writable THEN w
  ELSE OnChannelWritableState(
         [w EXCEPT !.transport_.channels_[component].writable = writable],
         component)

\* No call of IceCredentialsChanged yet.
NoCall ==
  [ old_ufrag |-> "", old_pwd |-> "", new_ufrag |-> "", new_pwd |-> "",
    called |-> FALSE, result |-> FALSE ]

\* The credentials TestIceCredentialsChanged uses, and the empty string.
Ufrags == {"u1", "u2", ""}
Pwds == {"p1", "p2", ""}

\* The three candidates TestP2PTransportWriteAndParseCandidate writes,
\* by component, with the name the translator maps the component to.
test_candidates ==
  { [component |-> 1, name |-> "test", priority |-> 738197504],
    [component |-> 2, name |-> "test2", priority |-> 1107296256],
    [component |-> 3, name |-> "test3", priority |-> 1476395008] }

\* No element written yet.
NoElement == [name |-> "", priority |-> 0, preference |-> ""]

\* Faulty variant of WriteGingleCandidate: the preference is rounded to
\* the nearest hundredth.
WriteGingleCandidate_Rounds(candidate) ==
  [ name |-> candidate.name,
    priority |-> candidate.priority,
    preference |-> CASE candidate.component = 1 -> "0.35"
                     [] candidate.component = 2 -> "0.52"
                     [] candidate.component = 3 -> "0.69" ]

\* P2PTransportParser::WriteGingleCandidate, as far as the test fixes it:
\* the name and the preference attribute of the element written for each
\* of its candidates.  priority is history: the candidate's priority.
WriteGingleCandidate(candidate) ==
  [ name |-> candidate.name,
    priority |-> candidate.priority,
    preference |-> CASE candidate.component = 1 -> "0.34"
                     [] candidate.component = 2 -> "0.51"
                     [] candidate.component = 3 -> "0.69" ]

\* TransportTest::TransportTest
TestInit ==
  /\ transport_ = NewTransport
  /\ thread_ = << >>
  /\ connecting_signalled_ = FALSE
  /\ completed_ = FALSE
  /\ failed_ = FALSE

----------------------------------------------------------------------------
(* Initial state: the port as constructed and configured with its servers. *)
(* A shared socket is handed in by the allocator, binding or bound; a      *)
(* port of its own gets its socket in Init.                                *)

ConfiguredWith(universe) ==
  /\ server_addresses_ \in SUBSET universe
  /\ bind_request_succeeded_servers_ = {}
  /\ bind_request_failed_servers_ = {}
  /\ ready_ = FALSE
  /\ requests_ = EmptyBag
  /\ resolvers_ = [h \in Hostnames |-> "none"]
  /\ candidates_ = << >>
  /\ port_complete = 0
  /\ port_error = 0
  /\ shared_socket \in BOOLEAN
  /\ socket_state \in (IF shared_socket THEN {"BINDING", "BOUND"} ELSE {"NONE"})
  /\ inited = FALSE
  /\ prepare_called = FALSE
  /\ assert_failed = FALSE
  /\ repeated_success = {}
  /\ now = 0
  /\ ticks = 0
  /\ connections_ = {}
  /\ last_read = [remote |-> "none", matched |-> FALSE, sinks |-> {}]
  /\ lookups_started = [h \in Hostnames |-> 0]
  /\ destroyed = FALSE
  /\ address_ready_log = << >>
  /\ error_ = 0
  /\ socket_error = 0
  /\ last_send = NoSend
  /\ TestInit
  /\ credentials_changed = NoCall
  /\ elem = NoElement

Init == ConfiguredWith(ServerUniverse)

----------------------------------------------------------------------------
(* Actions: one per entry point or callback of the port. *)

\* The port takes calls until an ASSERT fails (talk_base ASSERT breaks) or
\* it is destroyed.
Running == ~assert_failed /\ ~destroyed

\* UDPPort::Init.  A failed socket creation returns false: the port is
\* never used ("FAILED").
UDPPortInit ==
  /\ Running
  /\ ~inited
  /\ socket_state # "FAILED"
  /\ IF shared_socket
     THEN socket_state' = socket_state /\ inited' = TRUE
     ELSE \E st \in {"BINDING", "BOUND", "FAILED"} :
            /\ socket_state' = st
            /\ inited' = (st # "FAILED")
  /\ UNCHANGED << server_addresses_, bind_request_succeeded_servers_,
                  bind_request_failed_servers_, ready_, requests_, resolvers_,
                  candidates_, port_complete, port_error, shared_socket,
                  prepare_called, assert_failed, repeated_success,
                  now, ticks, connections_, last_read, lookups_started,
                  destroyed, address_ready_log, error_,
                  socket_error, last_send, test_vars, value_vars >>

\* Faulty variant of PrepareAddress: the socket's state is not looked at.
PrepareAddress_IgnoresState ==
  /\ Running
  /\ inited
  /\ ~prepare_called
  /\ prepare_called' = TRUE
  /\ Commit(IF requests_ # EmptyBag THEN [S EXCEPT !.assert_failed = TRUE]
            ELSE OnLocalAddressReady(S))
  /\ UNCHANGED << shared_socket, inited, now, ticks, destroyed >>

\* UDPPort::PrepareAddress, called once by the allocator on a created port.
PrepareAddress ==
  /\ Running
  /\ inited
  /\ ~prepare_called
  /\ prepare_called' = TRUE
  /\ Commit(IF requests_ # EmptyBag THEN [S EXCEPT !.assert_failed = TRUE]
            ELSE IF socket_state = "BOUND" THEN OnLocalAddressReady(S)
            ELSE S)
  /\ UNCHANGED << shared_socket, inited, now, ticks, destroyed >>

\* The socket finishes binding and emits SignalAddressReady; the port
\* hears it only if Init has connected the slot.
SocketAddressReady ==
  /\ Running
  /\ socket_state = "BINDING"
  /\ LET s0 == [S EXCEPT !.socket_state = "BOUND"]
     IN Commit(IF inited THEN OnLocalAddressReady(s0) ELSE s0)
  /\ UNCHANGED << shared_socket, inited, prepare_called, now, ticks,
                  destroyed >>

\* A running resolver finishes and emits SignalDone:
\* AddressResolver::OnResolveResult -> UDPPort::OnResolveResult.
ResolveDone(h, result) ==
  /\ ~assert_failed
  /\ resolvers_[h] = "started"
  /\ Commit(OnResolveResult([S EXCEPT !.resolvers_[h] = "done"], h, result))
  /\ UNCHANGED << shared_socket, inited, prepare_called, now, ticks,
                  destroyed >>

\* The message queue runs the delayed first transmission of a request.
FireDelayed(req) ==
  /\ Running
  /\ BagIn(req, requests_)
  /\ ~req.sent
  /\ now >= req.start_time + req.delay
  /\ requests_' = (requests_ (-) SetToBag({req}))
                    (+) SetToBag({[req EXCEPT !.sent = TRUE]})
  /\ UNCHANGED << server_addresses_, bind_request_succeeded_servers_,
                  bind_request_failed_servers_, ready_, resolvers_,
                  candidates_, port_complete, port_error, socket_state,
                  shared_socket, inited, prepare_called, assert_failed,
                  repeated_success, now, ticks, connections_, last_read,
                  lookups_started, destroyed, address_ready_log, error_,
                  socket_error, last_send, test_vars, value_vars >>

\* OnReadPacket -> CheckResponse -> StunBindingRequest::OnResponse
OnResponse(req, resp) ==
  /\ Running
  /\ BagIn(req, requests_)
  /\ req.sent
  /\ req.server_addr \in server_addresses_
  /\ Commit(StunBindingRequest_OnResponse(S, req, resp))
  /\ UNCHANGED << shared_socket, inited, prepare_called, now, ticks,
                  destroyed >>

\* OnReadPacket -> CheckResponse -> StunBindingRequest::OnErrorResponse
OnErrorResponse(req) ==
  /\ Running
  /\ BagIn(req, requests_)
  /\ req.sent
  /\ req.server_addr \in server_addresses_
  /\ Commit(StunBindingRequest_OnErrorResponse(S, req))
  /\ UNCHANGED << shared_socket, inited, prepare_called, now, ticks,
                  destroyed >>

\* StunBindingRequest::OnTimeout.  The request manager decides when a sent
\* request has timed out; any moment after the transmission is possible.
OnTimeout(req) ==
  /\ Running
  /\ BagIn(req, requests_)
  /\ req.sent
  /\ LET s1 == OnStunBindingOrResolveRequestFailed(S, req.server_addr)
         s2 == IF req.keep_alive /\ TimeSince(req.start_time) <= RETRY_TIMEOUT
               THEN SendDelayed(s1, req.server_addr, RETRY_DELAY,
                                req.chain_start)
               ELSE s1
     IN Commit(Remove(s2, req))
  /\ UNCHANGED << shared_socket, inited, prepare_called, now, ticks,
                  destroyed >>

\* Time passes.
Tick(d) ==
  /\ Running
  /\ ticks < MaxTicks
  /\ now' = now + d
  /\ ticks' = ticks + 1
  /\ UNCHANGED << server_addresses_, bind_request_succeeded_servers_,
                  bind_request_failed_servers_, ready_, requests_, resolvers_,
                  candidates_, port_complete, port_error, socket_state,
                  shared_socket, inited, prepare_called, assert_failed,
                  repeated_success, connections_, last_read,
                  lookups_started, destroyed, address_ready_log, error_,
                  socket_error, last_send, test_vars, value_vars >>

Requests == BagToSet(requests_)

\* The owner deletes the port.
Teardown ==
  /\ Running
  /\ destroyed' = TRUE
  /\ Commit(UDPPort_dtor(S))
  /\ UNCHANGED << shared_socket, inited, prepare_called, now, ticks >>

\* The addresses a datagram can come from: any host of the port's family.
RemoteAddrs == CompatibleIPs

\* Placeholder for "no request" in a datagram that is not a response.
NoRequest ==
  [ server_addr |-> "none", keep_alive |-> FALSE, start_time |-> 0,
    delay |-> 0, sent |-> FALSE, chain_start |-> 0 ]

\* The datagrams remote_addr can send: payload that is no STUN response
\* ("data"), a STUN response that matches no outstanding request
\* ("stale"), and the answers to the requests that were sent to it.
Packets(remote_addr) ==
  {[kind |-> k, req |-> NoRequest, resp |-> "none"] : k \in {"data", "stale"}}
  \cup {[kind |-> "response", req |-> r, resp |-> x] :
          r \in {q \in Requests : q.sent /\ q.server_addr = remote_addr},
          x \in Responses \cup {"error"}}

\* A datagram arrives on the bound socket: SignalReadPacket ->
\* UDPPort::OnReadPacket.
ReadPacket(remote_addr, pkt) ==
  /\ Running
  /\ inited
  /\ socket_state = "BOUND"
  /\ Commit(OnReadPacket(S, remote_addr, pkt))
  /\ UNCHANGED << shared_socket, inited, prepare_called, now, ticks,
                  destroyed >>

\* The channel pairs a remote candidate with the port, once the port has
\* announced a candidate of its own.
NewConnection(address, protocol) ==
  /\ Running
  /\ inited
  /\ candidates_ # << >>
  /\ Commit(CreateConnection(S, address, protocol))
  /\ UNCHANGED << shared_socket, inited, prepare_called, now, ticks,
                  destroyed >>

\* A connection of the port sends a datagram: UDPPort::SendTo.
ConnectionSends(size, addr, err) ==
  /\ Running
  /\ inited
  /\ socket_state = "BOUND"
  /\ Commit(SendTo(S, size, addr, err))
  /\ UNCHANGED << shared_socket, inited, prepare_called, now, ticks,
                  destroyed >>

\* The request manager transmits or retransmits an outstanding request:
\* SignalSendPacket -> UDPPort::OnSendPacket.
SendPacket(size, req, err) ==
  /\ Running
  /\ BagIn(req, requests_)
  /\ req.sent
  /\ Commit(OnSendPacket(S, size, req, err))
  /\ UNCHANGED << shared_socket, inited, prepare_called, now, ticks,
                  destroyed >>

Next ==
  \/ UDPPortInit
  \/ PrepareAddress
  \/ SocketAddressReady
  \/ \E h \in Hostnames, result \in ResolveResults : ResolveDone(h, result)
  \/ \E req \in Requests : FireDelayed(req)
  \/ \E req \in Requests, resp \in Responses : OnResponse(req, resp)
  \/ \E req \in Requests : OnErrorResponse(req)
  \/ \E req \in Requests : OnTimeout(req)
  \/ \E d \in TickSteps : Tick(d)

Spec == Init /\ [][Next]_vars

\* The port with its connections and inbound datagrams, the clock standing
\* still: every response reaches the port through OnReadPacket.
PortNext ==
  \/ UDPPortInit
  \/ PrepareAddress
  \/ SocketAddressReady
  \/ \E h \in Hostnames, result \in ResolveResults : ResolveDone(h, result)
  \/ \E req \in Requests : OnTimeout(req)
  \/ \E address \in CompatibleIPs \cup IncompatibleIPs,
        protocol \in {"udp", "tcp"} : NewConnection(address, protocol)
  \/ \E remote_addr \in RemoteAddrs :
        \E pkt \in Packets(remote_addr) : ReadPacket(remote_addr, pkt)
  \/ Teardown

PortSpec == Init /\ [][PortNext]_vars

\* The port's sends: datagrams of its connections and the transmissions of
\* its binding requests, each succeeding or failing.
SendNext ==
  \/ UDPPortInit
  \/ PrepareAddress
  \/ SocketAddressReady
  \/ \E req \in Requests : OnTimeout(req)
  \/ \E size \in Sizes, addr \in RemoteAddrs, err \in {0} \cup SocketErrors :
       ConnectionSends(size, addr, err)
  \/ \E size \in Sizes, req \in Requests, err \in {0} \cup SocketErrors :
       SendPacket(size, req, err)

SendSpec == Init /\ [][SendNext]_vars

\* A STUN response that matches no outstanding request: the second copy
\* of a response, or the answer to a request that has timed out.
StaleResponse == [kind |-> "stale", req |-> NoRequest, resp |-> "none"]

\* The port with its own socket, configured with both hostnames, under
\* the events of Spec and stale responses from its servers.
NamesInit ==
  /\ ConfiguredWith(NamedServers)
  /\ Hostnames \subseteq server_addresses_
  /\ ~shared_socket

NamesNext ==
  \/ Next
  \/ \E remote_addr \in RemoteAddrs \cap server_addresses_ :
       ReadPacket(remote_addr, StaleResponse)

NamesSpec == NamesInit /\ [][NamesNext]_vars

----------------------------------------------------------------------------
(* The calls a test makes on its transport.  The role is set before any    *)
(* description is applied; an answer is applied only after the offer of    *)
(* the other side.                                                         *)

InUse == ~transport_.destroyed_

SetIceRole(role) ==
  /\ InUse
  /\ transport_' = SetIceRole_w(transport_, role)
  /\ UNCHANGED << port_vars, value_vars, thread_, connecting_signalled_,
                  completed_, failed_ >>

SetIceTiebreaker(tiebreaker) ==
  /\ InUse
  /\ transport_' = SetIceTiebreaker_w(transport_, tiebreaker)
  /\ UNCHANGED << port_vars, value_vars, thread_, connecting_signalled_,
                  completed_, failed_ >>

SetLocalTransportDescription(desc, action) ==
  /\ InUse
  /\ transport_.ice_role_ # "ICEROLE_UNKNOWN"
  /\ action # "CA_OFFER" => transport_.remote_description_ # << >>
  /\ transport_' = SetLocalTransportDescription_w(transport_, desc, action)
  /\ UNCHANGED << port_vars, value_vars, thread_, connecting_signalled_,
                  completed_, failed_ >>

SetRemoteTransportDescription(desc, action) ==
  /\ InUse
  /\ transport_.ice_role_ # "ICEROLE_UNKNOWN"
  /\ action # "CA_OFFER" => transport_.local_description_ # << >>
  /\ transport_' = SetRemoteTransportDescription_w(transport_, desc, action)
  /\ UNCHANGED << port_vars, value_vars, thread_, connecting_signalled_,
                  completed_, failed_ >>

CreateChannel(component) ==
  /\ InUse
  /\ transport_' = CreateChannel_w(transport_, component)
  /\ UNCHANGED << port_vars, value_vars, thread_, connecting_signalled_,
                  completed_, failed_ >>

DestroyChannel(component) ==
  /\ InUse
  /\ component \in DOMAIN transport_.channels_
  /\ transport_' = DestroyChannel_w(transport_, component)
  /\ UNCHANGED << port_vars, value_vars, thread_, connecting_signalled_,
                  completed_, failed_ >>

\* The ICE parameters of a transport and its channels under any sequence
\* of role changes, description applications and channel creations.
TransportNext ==
  \/ \E role \in IceRoles : SetIceRole(role)
  \/ \E tiebreaker \in Tiebreakers : SetIceTiebreaker(tiebreaker)
  \/ \E desc \in LocalDescriptions, action \in ContentActions :
       SetLocalTransportDescription(desc, action)
  \/ \E desc \in RemoteDescriptions, action \in ContentActions :
       SetRemoteTransportDescription(desc, action)
  \/ \E component \in Components : CreateChannel(component)
  \/ \E component \in Components : DestroyChannel(component)

\* The port plays no part: it stays as constructed, without servers.
TransportInit ==
  /\ Init
  /\ server_addresses_ = {}
  /\ ~shared_socket

TransportSpec == TransportInit /\ [][TransportNext]_vars

\* The tests connect a transport that has a channel.
ConnectChannels ==
  /\ InUse
  /\ transport_.channels_ # << >>
  /\ Len(thread_) < MaxQueue
  /\ CommitTest(ConnectChannels_w(W))
  /\ UNCHANGED << port_vars, value_vars >>

\* DestroyAllChannels, from a test or from ~TransportTest.
DestroyAllChannels ==
  /\ CommitTest(DestroyAllChannels_w(W))
  /\ UNCHANGED << port_vars, value_vars >>

\* thread_->ProcessMessages, one message at a time.
ProcessMessage ==
  /\ thread_ # << >>
  /\ LET w1 == [W EXCEPT !.thread_ = Tail(@),
                         !.transport_.late_message =
                            @ \/ transport_.destroyed_]
     IN CommitTest(OnMessage(w1, Head(thread_)))
  /\ UNCHANGED << port_vars, value_vars >>

\* Some other handler posts a message to the thread.
PostOther ==
  /\ Len(thread_) < MaxQueue
  /\ CommitTest(Post(W, "MSG_OTHER"))
  /\ UNCHANGED << port_vars, value_vars >>

\* channel_->SetConnectionCount
SetConnectionCount(component, connection_count) ==
  /\ InUse
  /\ component \in DOMAIN transport_.channels_
  /\ Len(thread_) < MaxQueue
  /\ CommitTest(SetConnectionCount_w(W, component, connection_count))
  /\ UNCHANGED << port_vars, value_vars >>

\* channel_->SetWritable
SetWritable(component, writable) ==
  /\ InUse
  /\ component \in DOMAIN transport_.channels_
  /\ Len(thread_) < MaxQueue
  /\ CommitTest(SetWritable_w(W, component, writable))
  /\ UNCHANGED << port_vars, value_vars >>

\* completed_ = false, as the test does once it has seen the signal.
ClearCompleted ==
  /\ completed_
  /\ completed_' = FALSE
  /\ UNCHANGED << port_vars, value_vars, transport_, thread_,
                  connecting_signalled_, failed_ >>

\* The signals of a transport: connecting, completed and failed, under
\* any sequence of channel events and message processing.
SignalNext ==
  \/ \E component \in Components : CreateChannel(component)
  \/ \E component \in Components : DestroyChannel(component)
  \/ ConnectChannels
  \/ DestroyAllChannels
  \/ ProcessMessage
  \/ PostOther
  \/ \E component \in Components, connection_count \in 0..MaxConnections :
       SetConnectionCount(component, connection_count)
  \/ \E component \in Components, writable \in BOOLEAN :
       SetWritable(component, writable)
  \/ ClearCompleted

SignalSpec == TransportInit /\ [][SignalNext]_vars

\* cricket::IceCredentialsChanged, called with any credentials.
CallIceCredentialsChanged(old_ufrag, old_pwd, new_ufrag, new_pwd) ==
  /\ credentials_changed' =
       [ old_ufrag |-> old_ufrag, old_pwd |-> old_pwd,
         new_ufrag |-> new_ufrag, new_pwd |-> new_pwd,
         called |-> TRUE,
         result |-> IceCredentialsChanged(old_ufrag, old_pwd,
                                          new_ufrag, new_pwd) ]
  /\ UNCHANGED << port_vars, test_vars, elem >>

\* parser.WriteGingleCandidate(candidate, &translator, elem.accept(), ...)
WriteCandidate(candidate) ==
  /\ elem' = WriteGingleCandidate(candidate)
  /\ UNCHANGED << port_vars, test_vars, credentials_changed >>

\* The two value computations the fixture tests, on any of their inputs.
ValueNext ==
  \/ \E old_ufrag \in Ufrags, old_pwd \in Pwds,
        new_ufrag \in Ufrags, new_pwd \in Pwds :
       CallIceCredentialsChanged(old_ufrag, old_pwd, new_ufrag, new_pwd)
  \/ \E candidate \in test_candidates : WriteCandidate(candidate)

ValueSpec == TransportInit /\ [][ValueNext]_vars

----------------------------------------------------------------------------
(* Properties *)

Recorded ==
  bind_request_succeeded_servers_ \cup bind_request_failed_servers_

\* Every address now in server_addresses_ has a recorded bind outcome.
AllRecorded == server_addresses_ \subseteq Recorded

\* The condition MaybeSetPortCompleteOrError tests before setting ready_.
GateOpen ==
  Cardinality(server_addresses_) =
    Cardinality(bind_request_failed_servers_) +
    Cardinality(bind_request_succeeded_servers_)

\* The step in which the port becomes ready.
BecomesReady == ~ready_ /\ ready_'

StunCandidates == {i \in DOMAIN candidates_ : candidates_[i].type = "stun"}

MalformedResponses == {"no_attr", "bad_family"}

\* The step takes req out of the request manager.  Every step of
\* OnResponse, OnErrorResponse and OnTimeout for req does; the properties
\* test it first.
Completes(req) == CopiesIn(req, requests_') < CopiesIn(req, requests_)

\* C1: SignalPortComplete and SignalPortError together fire at most once in
\* the port's life, and never both.
C1_SignalsAtMostOnce == port_complete + port_error <= 1

\* The port signalled error and a bind success arrived afterwards.
C1_Witness ==
  port_error = 1 /\ port_complete = 0 /\ bind_request_succeeded_servers_ # {}

\* C2: in the step in which the port signals complete or error, every
\* address in server_addresses_ has a recorded bind success or failure.
C2_NoSignalWhilePending == [][BecomesReady => AllRecorded']_vars

\* Nothing is left to happen on the port: it was prepared on a bound
\* socket, no request is outstanding or scheduled, no lookup is in flight.
Settled ==
  /\ inited /\ prepare_called /\ socket_state = "BOUND"
  /\ requests_ = EmptyBag
  /\ \A h \in Hostnames : resolvers_[h] # "started"

\* C3: if every server address has recorded a bind success or a failure,
\* the port eventually signals complete or error; so once nothing is left
\* to happen it has signalled (unless an assertion stopped the program).
C3_EventuallySignals ==
  (Settled /\ AllRecorded) => (ready_ \/ assert_failed)

\* C4: when the port becomes ready it signals complete if server_addresses_
\* is empty, a server has a recorded bind success or the socket is shared,
\* and error in every other case.
C4_CompleteOrError ==
  [][BecomesReady =>
       IF \/ server_addresses_' = {}
          \/ bind_request_succeeded_servers_' # {}
          \/ shared_socket
       THEN port_complete' = port_complete + 1 /\ port_error' = port_error
       ELSE port_error' = port_error + 1 /\ port_complete' = port_complete]_vars

\* The port signalled error: it has servers, none succeeded, own socket.
C4_Witness ==
  /\ port_error = 1
  /\ ~shared_socket
  /\ server_addresses_ # {}
  /\ bind_request_succeeded_servers_ = {}

\* C5: no server address is ever in both the bind-succeeded and the
\* bind-failed set.
C5_SetsDisjoint ==
  bind_request_succeeded_servers_ \cap bind_request_failed_servers_ = {}

\* C6: every binding failure, timeout or resolution failure evaluates the
\* completion gate, whether or not the server was already in the failed
\* set: after such an event an open gate means the port is ready.
C6_FailureEvaluatesGate ==
  [][(\/ \E req \in Requests :
           Completes(req) /\ (OnErrorResponse(req) \/ OnTimeout(req))
      \/ \E h \in Hostnames : ResolveDone(h, "error"))
     => (GateOpen' => ready_')]_vars

\* C7: a binding success response without a mapped address, or with a
\* mapped address of a bad family, records the server in the failed set.
C7_MalformedResponseFails ==
  [][\A req \in Requests, resp \in MalformedResponses :
       (Completes(req) /\ OnResponse(req, resp)) =>
         req.server_addr \in bind_request_failed_servers_']_vars

\* C8: a bind success for a server that already has one adds no candidate
\* and changes neither set, and there is never more than one
\* server-reflexive candidate per succeeded server.
C8_FirstSuccessWins ==
  /\ [](Cardinality(StunCandidates) <=
          Cardinality(bind_request_succeeded_servers_))
  /\ [][\A req \in Requests, addr \in MappedAddrs :
          (/\ req.server_addr \in bind_request_succeeded_servers_
           /\ Completes(req)
           /\ OnResponse(req, addr))
          => /\ candidates_' = candidates_
             /\ bind_request_succeeded_servers_' =
                  bind_request_succeeded_servers_
             /\ bind_request_failed_servers_' =
                  bind_request_failed_servers_]_vars

\* A keep-alive response repeated the success of a server.
C8_Witness ==
  /\ repeated_success # {}
  /\ Cardinality(StunCandidates) = 1

\* C9: the first bind success of a server registers a server-reflexive
\* candidate iff the socket is not shared or the reflected address differs
\* from the local address; either way the server is recorded as succeeded
\* and the completion gate is evaluated.
C9_ReflexiveCandidate ==
  [][\A req \in Requests, addr \in MappedAddrs :
       (/\ req.server_addr \notin bind_request_succeeded_servers_
        /\ Completes(req)
        /\ OnResponse(req, addr))
       => /\ IF ~shared_socket \/ addr # LocalAddr
             THEN candidates_' =
                    Append(candidates_, [type |-> "stun", address |-> addr])
             ELSE candidates_' = candidates_
          /\ req.server_addr \in bind_request_succeeded_servers_'
          /\ (GateOpen' => ready_')]_vars

\* Shared socket, reflected address equal to the local one: the server
\* succeeded, no server-reflexive candidate, and the gate made the port ready.
C9_Witness ==
  /\ shared_socket
  /\ bind_request_succeeded_servers_ # {}
  /\ StunCandidates = {}
  /\ bind_request_failed_servers_ = {}
  /\ port_complete = 1

\* C10: once more than RETRY_TIMEOUT has elapsed since the first request of
\* a chain of timeout-driven retries, a timeout schedules no further
\* request.
C10_RetryBudget ==
  [][\A req \in Requests :
       (/\ now - req.chain_start > RETRY_TIMEOUT
        /\ Completes(req)
        /\ OnTimeout(req))
       => requests_' = requests_ (-) SetToBag({req})]_vars

\* The sink OnReadPacket must choose for a datagram from remote_addr.
Route(remote_addr) ==
  IF remote_addr \in server_addresses_ THEN "CheckResponse"
  ELSE IF remote_addr \in connections_ THEN "Connection"
  ELSE "Port"

\* C11: every inbound datagram is handed to exactly one sink: the request
\* manager's CheckResponse if its source is in server_addresses_ (matching
\* a request or not, connection or not), else the connection for that
\* address if there is one, else the generic port-level handling.
C11_ReadPacketDispatch ==
  [][\A remote_addr \in RemoteAddrs :
       \A pkt \in Packets(remote_addr) :
         ReadPacket(remote_addr, pkt) =>
           last_read'.sinks = {Route(remote_addr)}]_vars

\* A datagram that matches no request came from a server address that
\* also has a connection, and only CheckResponse got it.
C11_Witness ==
  /\ last_read.remote \in server_addresses_ \cap connections_
  /\ ~last_read.matched
  /\ last_read.sinks = {"CheckResponse"}

\* C12: Resolve for an address that already has a resolver entry starts no
\* lookup and changes nothing; at most one lookup is ever started per
\* address.
C12_ResolveIdempotent ==
  /\ [](\A h \in Hostnames : lookups_started[h] <= 1)
  /\ [][\A h \in Hostnames :
          resolvers_[h] # "none" =>
            /\ lookups_started'[h] = lookups_started[h]
            /\ \/ resolvers_'[h] = resolvers_[h]
               \/ resolvers_[h] = "started" /\ resolvers_'[h] = "done"]_vars

\* The port gathered twice (address ready, then PrepareAddress), so Resolve
\* ran twice for the hostname; its one lookup has completed.
C12_Witness ==
  /\ Cardinality({i \in DOMAIN candidates_ : candidates_[i].type = "local"}) = 2
  /\ \E h \in Hostnames :
       /\ h \in server_addresses_
       /\ resolvers_[h] = "done"
       /\ lookups_started[h] = 1

\* C13: once the port is torn down no resolver it held is still running,
\* and nothing happens to the port any more: no server is recorded as
\* failed, no binding request is sent and no port signal fires.
C13_TeardownCancelsLookups ==
  /\ [](destroyed => \A h \in Hostnames : resolvers_[h] # "started")
  /\ [][destroyed =>
          /\ bind_request_failed_servers_' = bind_request_failed_servers_
          /\ server_addresses_' = server_addresses_
          /\ requests_' = requests_
          /\ port_complete' = port_complete
          /\ port_error' = port_error]_vars

\* The port was torn down while the lookup of a hostname was in flight.
C13_Witness ==
  /\ destroyed
  /\ \E h \in Hostnames :
       /\ resolvers_[h] = "destroyed"
       /\ h \in server_addresses_ \ bind_request_failed_servers_

\* The channels of the transport.
Channels == {transport_.channels_[c] : c \in DOMAIN transport_.channels_}
ChannelsAfter == {transport_'.channels_[c] : c \in DOMAIN transport_'.channels_}

HasBothDescriptions ==
  transport_.local_description_ # << >> /\ transport_.remote_description_ # << >>

RemoteIsLite ==
  /\ transport_.remote_description_ # << >>
  /\ transport_.remote_description_[1].ice_mode = "ICEMODE_LITE"

\* desc is a well-formed local description with new credentials for a
\* transport that holds both descriptions: a locally triggered ICE restart.
LocalRestart(desc) ==
  /\ HasBothDescriptions
  /\ VerifyIceParams(desc)
  /\ IceCredentialsChanged(transport_.local_description_[1].ice_ufrag,
                           transport_.local_description_[1].ice_pwd,
                           desc.ice_ufrag, desc.ice_pwd)

\* C16: a locally triggered ICE restart against a remote that is not
\* ICE-LITE flips the role, CONTROLLED to CONTROLLING and CONTROLLING to
\* CONTROLLED, and every existing channel reports the new role.
C16_RestartFlipsRole ==
  [][\A desc \in LocalDescriptions, action \in ContentActions :
       (/\ LocalRestart(desc)
        /\ ~RemoteIsLite
        /\ SetLocalTransportDescription(desc, action))
       => /\ transport_'.ice_role_ = Flip(transport_.ice_role_)
          /\ \A ch \in ChannelsAfter : ch.ice_role = Flip(transport_.ice_role_)]_vars

\* A CONTROLLED transport with two channels restarted ICE with a new local
\* offer and is CONTROLLING.
C16_Witness ==
  /\ transport_.last_restart = << "ICEROLE_CONTROLLED", "CA_OFFER" >>
  /\ transport_.ice_role_ = "ICEROLE_CONTROLLING"
  /\ ~RemoteIsLite
  /\ transport_.local_description_[1].ice_ufrag = kIceUfrag2
  /\ DOMAIN transport_.channels_ = Components

\* C17: a locally triggered ICE restart against an ICE-LITE remote leaves
\* the transport and all its channels CONTROLLING, with a new local offer
\* as with a new local answer.
C17_RestartAgainstLite ==
  [][\A desc \in LocalDescriptions, action \in ContentActions :
       (/\ LocalRestart(desc)
        /\ RemoteIsLite
        /\ SetLocalTransportDescription(desc, action))
       => /\ transport_'.ice_role_ = "ICEROLE_CONTROLLING"
          /\ \A ch \in ChannelsAfter : ch.ice_role = "ICEROLE_CONTROLLING"]_vars

\* A CONTROLLING transport restarted ICE with a new local answer against
\* an ICE-LITE remote and is still CONTROLLING.
C17_Witness ==
  /\ transport_.last_restart = << "ICEROLE_CONTROLLING", "CA_ANSWER" >>
  /\ RemoteIsLite
  /\ transport_.ice_role_ = "ICEROLE_CONTROLLING"
  /\ transport_.local_description_[1].ice_ufrag = kIceUfrag2
  /\ transport_.channels_ # << >>

\* C18: a negotiation completed by an answer against an ICE-LITE remote
\* never leaves the transport CONTROLLED: once the local answer is applied
\* (or the remote answer arrives) the transport and its channels are
\* CONTROLLING with remote mode LITE, and a channel created afterwards takes
\* the transport's role and remote mode.
C18_LiteForcesControlling ==
  /\ [][\A desc \in LocalDescriptions :
          (/\ VerifyIceParams(desc)
           /\ RemoteIsLite
           /\ SetLocalTransportDescription(desc, "CA_ANSWER"))
          => /\ transport_'.ice_role_ = "ICEROLE_CONTROLLING"
             /\ transport_'.remote_ice_mode_ = "ICEMODE_LITE"
             /\ \A ch \in ChannelsAfter :
                  /\ ch.ice_role = "ICEROLE_CONTROLLING"
                  /\ ch.remote_ice_mode = "ICEMODE_LITE"]_vars
  /\ [][\A desc \in RemoteDescriptions :
          (/\ VerifyIceParams(desc)
           /\ desc.ice_mode = "ICEMODE_LITE"
           /\ SetRemoteTransportDescription(desc, "CA_ANSWER"))
          => /\ transport_'.ice_role_ = "ICEROLE_CONTROLLING"
             /\ \A ch \in ChannelsAfter :
                  /\ ch.ice_role = "ICEROLE_CONTROLLING"
                  /\ ch.remote_ice_mode = "ICEMODE_LITE"]_vars
  /\ [][\A c \in Components :
          (c \notin DOMAIN transport_.channels_ /\ CreateChannel(c))
          => /\ transport_'.channels_[c].ice_role = transport_.ice_role_
             /\ transport_'.channels_[c].remote_ice_mode =
                  transport_.remote_ice_mode_]_vars

\* A CONTROLLED transport got an ICE-LITE remote offer, applied its local
\* answer and is CONTROLLING; it has a channel that is CONTROLLING with
\* remote mode LITE.
C18_Witness ==
  /\ transport_.lite_forced
  /\ transport_.last_restart = << >>
  /\ RemoteIsLite
  /\ transport_.local_description_ # << >>
  /\ transport_.ice_role_ = "ICEROLE_CONTROLLING"
  /\ \E ch \in Channels :
       ch.ice_role = "ICEROLE_CONTROLLING" /\ ch.remote_ice_mode = "ICEMODE_LITE"

\* Every channel has the transport's role, its local and remote ufrag/pwd
\* and its negotiated remote mode.
ChannelsMirrorTransport ==
  \A ch \in Channels :
    /\ ch.ice_role = transport_.ice_role_
    /\ ch.remote_ice_mode = transport_.remote_ice_mode_
    /\ transport_.local_description_ # << >> =>
         /\ ch.ice_ufrag = transport_.local_description_[1].ice_ufrag
         /\ ch.ice_pwd = transport_.local_description_[1].ice_pwd
    /\ transport_.remote_description_ # << >> =>
         /\ ch.remote_ice_ufrag = transport_.remote_description_[1].ice_ufrag
         /\ ch.remote_ice_pwd = transport_.remote_description_[1].ice_pwd

\* A channel created before any remote description has remote mode FULL.
CreatedChannelIsFull ==
  \A c \in Components :
    (/\ c \notin DOMAIN transport_.channels_
     /\ transport_.remote_description_ = << >>
     /\ CreateChannel(c))
    => transport_'.channels_[c].remote_ice_mode = "ICEMODE_FULL"

\* SetIceRole reaches every existing channel.
SetIceRoleReachesChannels ==
  \A role \in IceRoles :
    SetIceRole(role) => \A ch \in ChannelsAfter : ch.ice_role = role

\* A well-formed remote answer reaches every existing channel.
RemoteAnswerReachesChannels(desc) ==
  \A ch \in ChannelsAfter :
    /\ ch.remote_ice_ufrag = desc.ice_ufrag
    /\ ch.remote_ice_pwd = desc.ice_pwd
    /\ ch.remote_ice_mode = desc.ice_mode

Pending == {thread_[i] : i \in DOMAIN thread_} \cap TransportMessages
PendingAfter == {thread_'[i] : i \in DOMAIN thread_'} \cap TransportMessages

\* C14: DestroyAllChannels leaves no connecting notification in the queue,
\* and once the channels are destroyed the connecting signal does not fire,
\* whatever the thread processes afterwards.
C14_DestroyAllClearsPosts ==
  /\ [][DestroyAllChannels => "MSG_CONNECTING" \notin PendingAfter]_vars
  /\ [][transport_.destroyed_ =>
          connecting_signalled_' = connecting_signalled_]_vars

\* ConnectChannels, then DestroyAllChannels before the notification was
\* processed; the thread has processed a message since, and no signal.
C14_Witness ==
  /\ transport_.connect_requested_
  /\ transport_.destroyed_
  /\ transport_.late_message
  /\ ~connecting_signalled_

\* C15: ConnectChannels does not emit the connecting signal itself; the
\* signal has fired once the notification is no longer in the queue of a
\* transport whose channels were not all destroyed.
C15_ConnectingIsPosted ==
  /\ [][ConnectChannels => connecting_signalled_' = connecting_signalled_]_vars
  /\ []((/\ transport_.connect_requested_
         /\ ~transport_.destroyed_
         /\ "MSG_CONNECTING" \notin Pending)
        => connecting_signalled_)

\* The thread processed the notification of a connected transport.
C15_Witness ==
  /\ transport_.connect_requested_
  /\ ~transport_.destroyed_
  /\ transport_.channels_ # << >>
  /\ thread_ = << >>
  /\ connecting_signalled_

\* The connection count of channel c goes down to n in this step.
Dropped(c, n) ==
  /\ c \in DOMAIN transport_.channels_
  /\ n < transport_.channels_[c].connection_count
  /\ SetConnectionCount(c, n)

\* Every channel is writable and every channel but c has one connection.
OthersCompleted(c) ==
  \A d \in DOMAIN transport_.channels_ :
    /\ transport_.channels_[d].writable
    /\ d # c => transport_.channels_[d].connection_count = 1

\* C19: a connection count of 2 or more posts no signal; a drop to 1, with
\* every channel writable (and every other channel at 1), posts COMPLETED;
\* a drop to 0 posts FAILED and no COMPLETED; the flags of the fixture are
\* set by these notifications only.
C19_CompletedAndFailed ==
  /\ [][\A c \in Components, n \in 2..MaxConnections :
          SetConnectionCount(c, n) => thread_' = thread_]_vars
  /\ [][\A c \in Components :
          (OthersCompleted(c) /\ Dropped(c, 1))
          => thread_' = Append(thread_, "MSG_COMPLETED")]_vars
  /\ [][\A c \in Components :
          Dropped(c, 0) => thread_' = Append(thread_, "MSG_FAILED")]_vars
  /\ [][(~completed_ /\ completed_')
          => (thread_ # << >> /\ Head(thread_) = "MSG_COMPLETED")]_vars
  /\ [][(~failed_ /\ failed_')
          => (thread_ # << >> /\ Head(thread_) = "MSG_FAILED")]_vars
  /\ [][(ProcessMessage /\ Head(thread_) = "MSG_COMPLETED") => completed_']_vars
  /\ [][(ProcessMessage /\ Head(thread_) = "MSG_FAILED")
          => (failed_' /\ completed_' = completed_)]_vars

\* COMPLETED has fired, and then FAILED when the writable channel of a
\* one-channel transport lost its last connection.
C19_Witness ==
  /\ failed_
  /\ completed_
  /\ thread_ = << >>
  /\ DOMAIN transport_.channels_ = {1}
  /\ transport_.channels_[1].writable
  /\ transport_.channels_[1].connection_count = 0

\* C21: IceCredentialsChanged returns true if and only if the ufrag
\* differs or the pwd differs, and false exactly when both are equal.
C21_IceCredentialsChanged ==
  credentials_changed.called =>
    /\ (credentials_changed.old_ufrag # credentials_changed.new_ufrag
          => credentials_changed.result)
    /\ (credentials_changed.old_pwd # credentials_changed.new_pwd
          => credentials_changed.result)
    /\ (/\ credentials_changed.old_ufrag = credentials_changed.new_ufrag
        /\ credentials_changed.old_pwd = credentials_changed.new_pwd
        => ~credentials_changed.result)

\* The third row of the test: only the pwd differs, and the call
\* returned true.
C21_Witness ==
  /\ credentials_changed.called
  /\ credentials_changed.old_ufrag = "u1"
  /\ credentials_changed.new_ufrag = "u1"
  /\ credentials_changed.old_pwd = "p1"
  /\ credentials_changed.new_pwd = "p2"
  /\ credentials_changed.result

\* A number of hundredths below one, written with two decimals.
TwoDecimals(hundredths) ==
  IF hundredths < 10 THEN "0.0" \o ToString(hundredths)
  ELSE "0." \o ToString(hundredths)

\* priority / 2^32 in hundredths, truncated; computed in two halves of 16
\* bits, as priority * 100 does not fit in 32 bits.
Over2To32(priority) ==
  ((priority \div 65536) * 100 + ((priority % 65536) * 100) \div 65536)
    \div 65536

\* The top byte of the priority as a fraction of 127, in hundredths,
\* truncated.
TopByteOver127(priority) == ((priority \div 16777216) * 100) \div 127

HostCandidate == [type |-> "local", address |-> LocalAddr]

\* The step registers the host candidate and starts gathering: every
\* server of the port's family has a request outstanding, every hostname
\* has a resolver, and without servers the port is ready.
RegistersAndGathers ==
  /\ Len(candidates_') = Len(candidates_) + 1
  /\ candidates_'[Len(candidates_')] = HostCandidate
  /\ \A a \in server_addresses_ :
       /\ IsUnresolved(a) => resolvers_'[a] # "none"
       /\ IsCompatibleAddress(a) =>
            \E req \in BagToSet(requests_') : req.server_addr = a
  /\ server_addresses_ = {} => ready_'

\* The step registers no candidate, sends no request, starts no lookup and
\* emits no signal.
NothingHappens ==
  UNCHANGED << candidates_, requests_, resolvers_, ready_, port_complete,
               port_error, bind_request_succeeded_servers_,
               bind_request_failed_servers_, server_addresses_ >>

\* C23: PrepareAddress on a bound socket registers the host candidate and
\* starts gathering inside the call (unless the ASSERT at its start stops
\* the program); on a socket that is not bound yet it registers nothing,
\* sends nothing and signals nothing, and all of that happens in the step
\* of the socket's address-ready event and in no other step.
C23_PrepareAddressSyncOrAsync ==
  [][/\ (PrepareAddress /\ socket_state = "BOUND" /\ ~assert_failed')
          => RegistersAndGathers
     /\ (PrepareAddress /\ socket_state # "BOUND") => NothingHappens
     /\ (SocketAddressReady /\ inited /\ ~assert_failed')
          => RegistersAndGathers
     /\ (candidates_ = << >> /\ candidates_' # << >>)
          => \/ PrepareAddress /\ socket_state = "BOUND"
             \/ SocketAddressReady]_vars

\* PrepareAddress was called on a port with servers while the socket was
\* still binding: no candidate, no request, no lookup, no signal.
C23_Witness ==
  /\ prepare_called
  /\ socket_state = "BINDING"
  /\ server_addresses_ # {}
  /\ candidates_ = << >>
  /\ requests_ = EmptyBag
  /\ ~ready_

\* C24: a failed SendTo returns a negative result and GetError then
\* returns the socket's error for that send; a successful SendTo and a
\* send of request bytes, failed or not, leave the recorded error as it
\* was; either path hands the datagram to the socket once and schedules
\* nothing.
C24_SendFailureSurfaced ==
  [][/\ \A size \in Sizes, addr \in RemoteAddrs :
          /\ \A err \in SocketErrors :
               ConnectionSends(size, addr, err) =>
                 /\ last_send'.sent < 0
                 /\ GetError(S)' = err
          /\ ConnectionSends(size, addr, 0) =>
               /\ last_send'.sent = size
               /\ GetError(S)' = GetError(S)
     /\ \A size \in Sizes, req \in Requests, err \in {0} \cup SocketErrors :
          SendPacket(size, req, err) => GetError(S)' = GetError(S)
     /\ last_send' # last_send =>
          /\ last_send'.socket_calls = 1
          /\ requests_' = requests_]_vars

\* A SendTo failed with ENETUNREACH; later a transmission of a binding
\* request failed with EWOULDBLOCK, and GetError still says ENETUNREACH.
C24_Witness ==
  /\ error_ = 101
  /\ last_send.via = "OnSendPacket"
  /\ last_send.sent < 0
  /\ last_send.error = 11

\* The step runs OnLocalAddressReady, and its ASSERT holds.
GatheringStarts ==
  /\ \/ PrepareAddress /\ socket_state = "BOUND"
     \/ SocketAddressReady /\ inited
  /\ ~assert_failed'

\* The number of requests to addr the manager holds after the step.
RequestsTo(addr) ==
  LET to_addr == {req \in BagToSet(requests_') : req.server_addr = addr}
  IN IF to_addr = {} THEN 0
     ELSE IF Cardinality(to_addr) = 1
          THEN CopiesIn(CHOOSE req \in to_addr : TRUE, requests_')
          ELSE 2

\* C25: when gathering starts on a bound socket, an unresolved hostname has
\* its one resolution started and gets no request and no recorded outcome;
\* a resolved address of the port's family gets exactly one binding
\* request; a resolved address of another family is recorded as failed and
\* gets no request.
C25_OneOutcomePerServer ==
  [][GatheringStarts =>
       /\ server_addresses_' = server_addresses_
       /\ \A a \in server_addresses_ :
            CASE IsUnresolved(a) ->
                   /\ resolvers_'[a] # "none"
                   /\ lookups_started'[a] = 1
                   /\ RequestsTo(a) = 0
                   /\ a \in bind_request_failed_servers_' <=>
                        a \in bind_request_failed_servers_
              [] IsCompatibleAddress(a) ->
                   /\ RequestsTo(a) = 1
                   /\ a \in bind_request_failed_servers_' <=>
                        a \in bind_request_failed_servers_
              [] OTHER ->
                   /\ RequestsTo(a) = 0
                   /\ a \in bind_request_failed_servers_']_vars

\* Gathering has started on a port with a hostname, a server of its
\* family and a server of another family: a lookup runs, one request is
\* out and the third server has failed.
C25_Witness ==
  /\ Len(candidates_) = 1
  /\ \E h \in Hostnames : h \in server_addresses_ /\ resolvers_[h] = "started"
  /\ \E a \in server_addresses_ :
       /\ IsCompatibleAddress(a)
       /\ \E req \in Requests : req.server_addr = a
  /\ \E a \in server_addresses_ \cap IncompatibleIPs :
       /\ a \in bind_request_failed_servers_
       /\ \A req \in Requests : req.server_addr # a
  /\ ~ready_

\* C26: when the lookup of hostname H succeeds with address R, H leaves
\* server_addresses_ and R is in it; one binding request goes to R if R
\* was not there before, and none if it was.  When the lookup fails, or
\* finds no address of the port's family, server_addresses_ is unchanged
\* and H is recorded as failed.  No hostname ever enters server_addresses_.
C26_ResolutionUpdatesServers ==
  [][/\ \A h \in Hostnames, result \in ResolveResults :
          ResolveDone(h, result) =>
            IF result \in ResolveFailures
            THEN /\ server_addresses_' = server_addresses_
                 /\ h \in bind_request_failed_servers_'
            ELSE /\ server_addresses_' =
                      (server_addresses_ \ {h}) \cup {result}
                 /\ h \notin server_addresses_'
                 /\ IF result \in server_addresses_
                    THEN requests_' = requests_
                    ELSE requests_' = requests_ (+)
                           SetToBag({StunBindingRequest(result, TRUE, 0, now)})
     /\ \A h \in Hostnames :
          h \notin server_addresses_ => h \notin server_addresses_']_vars

\* A hostname resolved to an address that was not configured: the name
\* is gone, the address is a server and has a request.
C26_Witness ==
  /\ "R2" \in server_addresses_
  /\ \E h \in Hostnames : resolvers_[h] = "done" /\ h \notin server_addresses_
  /\ \E req \in Requests : req.server_addr = "R2"

\* The step runs OnLocalAddressReady.
AddressReadyRuns ==
  \/ PrepareAddress /\ socket_state = "BOUND" /\ requests_ = EmptyBag
  \/ SocketAddressReady /\ inited

\* C27: OnLocalAddressReady registers the host candidate first: before it
\* sends a binding request or starts a lookup and before the port signals
\* complete or error; the host candidate is the first candidate of the
\* port, so any server-reflexive candidate comes after it; and a port
\* without servers signals complete in that same step.
C27_HostCandidateFirst ==
  /\ [](address_ready_log # << >> =>
          /\ address_ready_log[1] = "local"
          /\ \A i \in 2..Len(address_ready_log) :
               address_ready_log[i] \in
                 {"request", "resolve", "complete", "error"})
  /\ [](candidates_ # << >> => candidates_[1] = HostCandidate)
  /\ []((requests_ # EmptyBag \/ ready_
          \/ \E h \in Hostnames : resolvers_[h] # "none")
         => candidates_ # << >>)
  /\ [][AddressReadyRuns =>
          /\ address_ready_log' # << >>
          /\ (server_addresses_ = {} /\ ~ready_) =>
               /\ address_ready_log' = << "local", "complete" >>
               /\ port_complete' = port_complete + 1]_vars

\* The address became ready on a port with a hostname and a server: the
\* host candidate first, then the lookup and the request.
C27_Witness ==
  /\ Len(address_ready_log) = 3
  /\ address_ready_log[1] = "local"
  /\ address_ready_log[2] = "resolve"
  /\ address_ready_log[3] = "request"

\* The requests the step hands to the manager, and whether the step takes
\* nothing but req away.
FollowUps(req) == requests_' (-) (requests_ (-) SetToBag({req}))
OnlyCompletes(req) == (requests_ (-) SetToBag({req})) \sqsubseteq requests_'

\* One follow-up request to the server of req, created now and first
\* transmitted after delay.
OneFollowUp(req, delay) ==
  /\ BagCardinality(FollowUps(req)) = 1
  /\ \A f \in BagToSet(FollowUps(req)) :
       /\ f.server_addr = req.server_addr
       /\ f.start_time = now
       /\ f.delay = delay
       /\ ~f.sent

NoFollowUp(req) == FollowUps(req) = EmptyBag

\* C28: the completion of a binding request schedules at most one
\* follow-up to the same server: after a response, well-formed or not,
\* always, after the keep-alive delay; after an error response, after the
\* keep-alive delay, only if at most RETRY_TIMEOUT has passed since the
\* request was created; after a timeout, after RETRY_DELAY, under the same
\* condition; otherwise none.
C28_FollowUpRule ==
  [][\A req \in Requests :
       Completes(req) =>
         /\ \A resp \in Responses :
              OnResponse(req, resp) =>
                OnlyCompletes(req) /\ OneFollowUp(req, KEEPALIVE_DELAY)
         /\ OnErrorResponse(req) =>
              /\ OnlyCompletes(req)
              /\ IF now - req.start_time <= RETRY_TIMEOUT
                 THEN OneFollowUp(req, KEEPALIVE_DELAY)
                 ELSE NoFollowUp(req)
         /\ OnTimeout(req) =>
              /\ OnlyCompletes(req)
              /\ IF now - req.start_time <= RETRY_TIMEOUT
                 THEN OneFollowUp(req, RETRY_DELAY)
                 ELSE NoFollowUp(req)]_vars

\* A response that came more than RETRY_TIMEOUT after the port started
\* was followed by a keep-alive: the server has never failed, and a
\* request to it is scheduled after the keep-alive delay.
C28_Witness ==
  \E req \in Requests :
    /\ req.delay = KEEPALIVE_DELAY
    /\ ~req.sent
    /\ req.start_time > RETRY_TIMEOUT
    /\ req.server_addr \notin bind_request_failed_servers_

\* The number of local candidates: how often OnLocalAddressReady ran.
HostCandidates ==
  Cardinality({i \in DOMAIN candidates_ : candidates_[i].type = "local"})

\* The number of requests to addr the manager holds, sent or scheduled.
Outstanding(addr) ==
  LET to_addr == {req \in Requests : req.server_addr = addr}
  IN BagCardinality([req \in to_addr |-> CopiesIn(req, requests_)])

\* C29: as long as OnLocalAddressReady ran at most once, at most one
\* binding request, in flight or scheduled, is outstanding per resolved
\* server address.
C29_OneRequestPerServer ==
  HostCandidates <= 1 =>
    \A addr \in CompatibleIPs \cup IncompatibleIPs : Outstanding(addr) <= 1

\* Two hostnames have resolved to the same address; it is the one server
\* left and has one request.
C29_Witness ==
  /\ \A h \in Hostnames : resolvers_[h] = "done"
  /\ server_addresses_ = {"R2"}
  /\ Outstanding("R2") = 1
  /\ HostCandidates = 1

\* C30: the ASSERTs at the start of PrepareAddress and of
\* SendStunBindingRequests hold on every call, and the host candidate is
\* registered at most once (exactly once, once the address is ready and
\* PrepareAddress was called), whatever the order of Init, the one
\* PrepareAddress call and the socket's address-ready event.
C30_AssertsHoldHostOnce ==
  /\ ~assert_failed
  /\ HostCandidates <= 1
  /\ (prepare_called /\ socket_state = "BOUND") => HostCandidates = 1

\* C31: the candidate set is final once the port has signalled complete
\* or error: no response, to a first request, a retry or a keep-alive,
\* registers a candidate after that.
C31_CandidatesFinalWhenReady ==
  [][\A req \in Requests, resp \in Responses :
       (ready_ /\ Completes(req) /\ OnResponse(req, resp))
         => candidates_' = candidates_]_vars

====
